---- MODULE Spec2Model ----
(***************************************************************************)
(* Permission resolution and override mutation of the e-learning backend   *)
(* (src/src/controllers/superAdminController.js, with the role change of   *)
(* src/src/controllers/adminController.js).                                *)
(*                                                                         *)
(* The relational store is three tables: users, user_permissions and       *)
(* role_permissions, plus the read-only permissions catalog.  The table    *)
(* role_permissions is the bag of its rows: an INSERT adds a copy of each  *)
(* row, whether or not an equal row is there.  A handler is                *)
(* a sequence of awaited pool.query calls; the unit of execution is one    *)
(* query together with the synchronous code that follows it up to the next *)
(* await (Exec).  Spec serves one request at a time, each handler running   *)
(* to its response in one action; SpecConc interleaves the queries of      *)
(* concurrently served requests.  reqs holds the requests being served: a  *)
(* slot is idle, awaiting a query, or done until its response is taken.    *)
(***************************************************************************)
EXTENDS Integers, FiniteSets, Sequences, Bags, TLC

VARIABLES users, user_permissions, role_permissions, reqs

vars == <<users, user_permissions, role_permissions, reqs>>

(***************************************************************************)
(* Bounds of the model.                                                    *)
(***************************************************************************)
MaxUser == 2
NumPerms == 2
MaxProcs == 2

(***************************************************************************)
(* Values.                                                                 *)
(***************************************************************************)
\* A request field that is not supplied: undefined for a string, no array
\* for a list, and no identifier (falsy, as undefined is) for an id.
Absent == "undefined"
AbsentList == {Absent}
AbsentId == 0
NoRecord == "no_record"
NoRes == [status |-> 0]

UserIds == 1..MaxUser
Procs == 1..MaxProcs
Roles == {"User", "Instructor"}
OverrideTypes == {"grant", "revoke"}

PermNames == <<"create_quiz", "view_students", "edit_syllabus", "manage_users", "view_reports">>
UnknownName == "no_such_permission"

\* A type a request may carry that is no override type.
OtherType == "deny"

\* The permissions table: names are unique, ids are surrogate keys.
permissions == {[id |-> i, name |-> PermNames[i]] : i \in 1..NumPerms}

PermIds == {p.id : p \in permissions}
CatalogNames == {p.name : p \in permissions}
ReqNames == CatalogNames \cup {UnknownName}

\* A lookup that finds nothing unless every name is in the Catalog.
PermsByNamesStrict(names) ==
    IF names \subseteq CatalogNames THEN {p \in permissions : p.name \in names} ELSE {}

\* SELECT id, name FROM permissions WHERE name IN (names)
PermsByNames(names) == {p \in permissions : p.name \in names}

\* JavaScript truthiness of a request field (fields are drawn from undefined,
\* non-empty strings, non-zero ids and arrays; an empty array is truthy).
Truthy(x) == x # Absent

TruthyList(x) == x # AbsentList

TruthyId(x) == x # AbsentId

\* Array.length > 0 of a list given as the set of its elements.
NonEmpty(list) == list # {}

(***************************************************************************)
(* Queries on the three tables.  db is the record of the three tables.     *)
(***************************************************************************)
\* The role query without the default for a missing record.
UserRoleOfNoDefault(db, userId) == db.users[userId]

\* SELECT role FROM users WHERE id = ?;  users[0]?.role || 'User'
UserRoleOf(db, userId) ==
    IF db.users[userId] = NoRecord THEN "User" ELSE db.users[userId]

\* SELECT p.name, up.type FROM user_permissions up JOIN permissions p
\*   ON up.permissionId = p.id WHERE up.userId = ?
SelectUserPerms(db, userId) ==
    {[name |-> p.name, type |-> up.type] :
        <<up, p>> \in {x \in db.user_permissions \X permissions :
                         x[1].userId = userId /\ x[1].permissionId = x[2].id}}

\* SELECT p.name FROM role_permissions rp JOIN permissions p
\*   ON rp.permissionId = p.id WHERE rp.role = ?
SelectRolePerms(db, role) ==
    {p.name : <<rp, p>> \in {x \in BagToSet(db.role_permissions) \X permissions :
                               x[1].role = role /\ x[1].permissionId = x[2].id}}

\* The unique key of user_permissions, which ON DUPLICATE KEY UPDATE refers to.
DupKey(rows, userId, permissionId) ==
    \E r \in rows : r.userId = userId /\ r.permissionId = permissionId

\* The key columns are NOT NULL: an INSERT without a permissionId is refused.
NullKey(permissionId) == permissionId = AbsentId

\* A type column that takes any string.
ValidTypeAny(type) == TRUE

\* The type column admits the two override types: another value is refused.
ValidType(type) == type \in {"grant", "revoke"}

\* A plain INSERT on a table that does not enforce the key.
UpsertPlainInsert(rows, userId, permissionId, type) ==
    rows \cup {[userId |-> userId, permissionId |-> permissionId, type |-> type]}

\* INSERT IGNORE: an existing row keeps its type.
UpsertIgnore(rows, userId, permissionId, type) ==
    IF DupKey(rows, userId, permissionId) THEN rows
    ELSE rows \cup {[userId |-> userId, permissionId |-> permissionId, type |-> type]}

\* An upsert that replaces all the rows of the user by the new row.
UpsertReplacingUser(rows, userId, permissionId, type) ==
    {r \in rows : r.userId # userId}
        \cup {[userId |-> userId, permissionId |-> permissionId, type |-> type]}

\* INSERT INTO user_permissions (userId, permissionId, type) VALUES (?, ?, ?)
\*   ON DUPLICATE KEY UPDATE type = ?
Upsert(rows, userId, permissionId, type) ==
    IF DupKey(rows, userId, permissionId)
    THEN {IF r.userId = userId /\ r.permissionId = permissionId
          THEN [r EXCEPT !.type = type] ELSE r : r \in rows}
    ELSE rows \cup {[userId |-> userId, permissionId |-> permissionId, type |-> type]}

\* A bulk write that replaces the overrides of the user instead of merging.
UpsertAllReplacing(rows, userId, ids, type) ==
    {r \in rows : r.userId # userId}
        \cup {[userId |-> userId, permissionId |-> i, type |-> type] : i \in ids}

\* The multi-row form: VALUES ? with one row per resolved permission.
RECURSIVE UpsertAll(_, _, _, _)
UpsertAll(rows, userId, ids, type) ==
    IF ids = {} THEN rows
    ELSE LET i == CHOOSE x \in ids : TRUE
         IN UpsertAll(Upsert(rows, userId, i, type), userId, ids \ {i}, type)

\* A single reset that forgets the permissionId condition.
DeleteOverrideWholeUser(rows, userId, permissionId) ==
    {r \in rows : r.userId # userId}

\* DELETE FROM user_permissions WHERE userId = ? AND permissionId = ?
DeleteOverride(rows, userId, permissionId) ==
    {r \in rows : ~(r.userId = userId /\ r.permissionId = permissionId)}

\* A reset that deletes the grants only.
DeleteGrantsOnly(rows, userId) ==
    {r \in rows : ~(r.userId = userId /\ r.type = "grant")}

\* DELETE FROM user_permissions WHERE userId = ?
DeleteAllOverrides(rows, userId) == {r \in rows : r.userId # userId}

\* A role update that forgets to clear the existing rows.
DeleteRoleNothing(rows, role) == rows

\* DELETE FROM role_permissions WHERE role = ?
DeleteRole(rows, role) ==
    [r \in {x \in BagToSet(rows) : x.role # role} |-> CopiesIn(r, rows)]

\* A role_permissions table without the unique key.
RoleNoKey(rows, role, ids) == FALSE

\* The unique key of role_permissions: does the multi-row INSERT hit it?
RoleDupKey(rows, role, ids) ==
    \E r \in BagToSet(rows) : r.role = role /\ r.permissionId \in ids

\* INSERT INTO role_permissions (role, permissionId) VALUES ?
InsertRole(rows, role, ids) ==
    rows (+) SetToBag({[role |-> role, permissionId |-> i] : i \in ids})

(***************************************************************************)
(* Requests.  A request is the record of one handler invocation: op is the *)
(* handler, userId or roleName is req.params.id, body is req.body, pc names *)
(* the query the handler is awaiting, loc holds the handler's local        *)
(* variables, queries counts the pool.query calls it has made and res is   *)
(* the response once it is sent.                                           *)
(***************************************************************************)
NoBody ==
    [grantPermissions |-> AbsentList, revokePermissions |-> AbsentList,
     permissionId |-> AbsentId, type |-> Absent, permissionName |-> Absent,
     permissionNames |-> AbsentList, role |-> Absent, fullName |-> Absent]

NoLoc ==
    [userRole |-> Absent, userPerms |-> {}, perms |-> {}, permissionId |-> AbsentId]

Idle == [op |-> "idle", userId |-> AbsentId, roleName |-> Absent, body |-> NoBody,
         pc |-> "idle", loc |-> NoLoc, queries |-> 0, res |-> NoRes, seen |-> {}]

\* The handlers of the role policy read req.params.id as roleName, the others
\* as userId.
RoleOps == {"getRolePermissions", "updateRolePermissions"}

NewReq(op, id, body) ==
    [op |-> op,
     userId |-> IF op \in RoleOps THEN AbsentId ELSE id,
     roleName |-> IF op \in RoleOps THEN id ELSE Absent,
     body |-> body, pc |-> "start", loc |-> NoLoc, queries |-> 0, res |-> NoRes,
     seen |-> {}]

\* res.status(code).json(payload) / res.json(payload)
Respond(r, status, payload) ==
    [r EXCEPT !.pc = "done", !.res = [status |-> status, payload |-> payload]]

\* catch (error) { res.status(500).json({ message: 'Server error' }) }
ServerError(r) == Respond(r, 500, [message |-> "Server error"])

(***************************************************************************)
(* getUserPermissions                                                      *)
(***************************************************************************)
GrantedOf(userPerms) == {up.name : up \in {x \in userPerms : x.type = "grant"}}

RevokedOf(userPerms) == {up.name : up \in {x \in userPerms : x.type = "revoke"}}

\* A resolver that forgets the revokes.
EffectiveSetNoRevoke(rolePermissions, grantedPermissions, revokedPermissions) ==
    rolePermissions \cup grantedPermissions

\* effectiveSet = new Set(rolePermissions); add the grants; delete the revokes
EffectiveSet(rolePermissions, grantedPermissions, revokedPermissions) ==
    (rolePermissions \cup grantedPermissions) \ revokedPermissions

EffectiveView(userId, userRole, userPerms, rolePermissions) ==
    [success |-> TRUE,
     data |-> [userId |-> userId,
               role |-> userRole,
               effectivePermissions |->
                   EffectiveSet(rolePermissions, GrantedOf(userPerms), RevokedOf(userPerms)),
               rolePermissions |-> rolePermissions,
               grantedPermissions |-> GrantedOf(userPerms),
               revokedPermissions |-> RevokedOf(userPerms)]]

GetUserPermissionsStart(r) == [r EXCEPT !.pc = "q_role"]

GetUserPermissionsExec(db, r) ==
    CASE r.pc = "q_role" ->
           [db |-> db,
            r |-> [r EXCEPT !.loc.userRole = UserRoleOf(db, r.userId), !.pc = "q_overrides"]]
      [] r.pc = "q_overrides" ->
           [db |-> db,
            r |-> [r EXCEPT !.loc.userPerms = SelectUserPerms(db, r.userId), !.pc = "q_rolePerms"]]
      [] r.pc = "q_rolePerms" ->
           [db |-> db,
            r |-> Respond(r, 200,
                     EffectiveView(r.userId, r.loc.userRole, r.loc.userPerms,
                                   SelectRolePerms(db, r.loc.userRole)))]

(***************************************************************************)
(* updateUserPermission, with the grant and revoke wrappers                *)
(***************************************************************************)
IsBulk(body) == TruthyList(body.grantPermissions) \/ TruthyList(body.revokePermissions)

\* grantPermissions || [] ,  revokePermissions || []
ToGrant(body) == IF TruthyList(body.grantPermissions) THEN body.grantPermissions ELSE {}

ToRevoke(body) == IF TruthyList(body.revokePermissions) THEN body.revokePermissions ELSE {}

BulkDone(r) == Respond(r, 200, [success |-> TRUE, message |-> "User permissions updated"])

\* Control after the grant block: the revoke block or the response.
BulkAfterGrant(r) ==
    IF NonEmpty(ToRevoke(r.body)) THEN [r EXCEPT !.pc = "r_select"] ELSE BulkDone(r)

\* Control after the name resolution of the single path: delete or upsert.
LegacyWrite(r) ==
    IF ~Truthy(r.body.type) THEN [r EXCEPT !.pc = "l_delete"]
    ELSE [r EXCEPT !.pc = "l_upsert"]

\* A name resolution that forgets to return on an unknown name.
LegacyResolvedFallThrough(r, perms) ==
    IF NonEmpty(perms)
    THEN LegacyWrite([r EXCEPT !.loc.permissionId = (CHOOSE p \in perms : TRUE).id])
    ELSE LegacyWrite(r)

\* if (perms.length > 0) permissionId = perms[0].id;
\* else return res.status(404).json({ message: 'Permission not found' })
LegacyResolved(r, perms) ==
    IF NonEmpty(perms)
    THEN LegacyWrite([r EXCEPT !.loc.permissionId = (CHOOSE p \in perms : TRUE).id])
    ELSE Respond(r, 404, [message |-> "Permission not found"])

UpdateUserPermissionStart(r) ==
    IF IsBulk(r.body)
    THEN IF NonEmpty(ToGrant(r.body)) THEN [r EXCEPT !.pc = "g_select"]
         ELSE BulkAfterGrant(r)
    ELSE LET r1 == [r EXCEPT !.loc.permissionId = r.body.permissionId]
         IN IF Truthy(r.body.permissionName) /\ ~TruthyId(r.body.permissionId)
            THEN [r1 EXCEPT !.pc = "l_select"]
            ELSE LegacyWrite(r1)

LegacyDone(r) == Respond(r, 200, [success |-> TRUE, message |-> "User permission updated"])

UpdateUserPermissionExec(db, r) ==
    CASE r.pc = "g_select" ->
           LET perms == PermsByNames(ToGrant(r.body))
           IN [db |-> db,
               r |-> IF NonEmpty(perms) THEN [r EXCEPT !.loc.perms = perms, !.pc = "g_upsert"]
                     ELSE BulkAfterGrant(r)]
      [] r.pc = "g_upsert" ->
           [db |-> [db EXCEPT !.user_permissions =
                       UpsertAll(@, r.userId, {p.id : p \in r.loc.perms}, "grant")],
            r |-> BulkAfterGrant(r)]
      [] r.pc = "r_select" ->
           LET perms == PermsByNames(ToRevoke(r.body))
           IN [db |-> db,
               r |-> IF NonEmpty(perms) THEN [r EXCEPT !.loc.perms = perms, !.pc = "r_upsert"]
                     ELSE BulkDone(r)]
      [] r.pc = "r_upsert" ->
           [db |-> [db EXCEPT !.user_permissions =
                       UpsertAll(@, r.userId, {p.id : p \in r.loc.perms}, "revoke")],
            r |-> BulkDone(r)]
      [] r.pc = "l_select" ->
           LET perms == PermsByNames({r.body.permissionName})
           IN [db |-> db,
               r |-> LegacyResolved(r, perms)]
      [] r.pc = "l_delete" ->
           [db |-> [db EXCEPT !.user_permissions =
                       DeleteOverride(@, r.userId, r.loc.permissionId)],
            r |-> LegacyDone(r)]
      [] r.pc = "l_upsert" ->
           IF NullKey(r.loc.permissionId) \/ ~ValidType(r.body.type)
           THEN [db |-> db, r |-> ServerError(r)]
           ELSE [db |-> [db EXCEPT !.user_permissions =
                            Upsert(@, r.userId, r.loc.permissionId, r.body.type)],
                 r |-> LegacyDone(r)]

\* req.body.type = 'grant' / 'revoke'; return updateUserPermission(req, res)
WrapperBody(op, body) ==
    CASE op = "grantUserPermission" -> [body EXCEPT !.type = "grant"]
      [] op = "revokeUserPermission" -> [body EXCEPT !.type = "revoke"]
      [] OTHER -> body

(***************************************************************************)
(* resetUserPermissions                                                    *)
(***************************************************************************)
ResetUserPermissionsStart(r) == [r EXCEPT !.pc = "up_deleteAll"]

\* A reset that also clears the role permissions of the role of the user.
ResetUserPermissionsAndRole(db, r) ==
    [db |-> [db EXCEPT !.user_permissions = DeleteAllOverrides(@, r.userId),
                       !.role_permissions = DeleteRole(@, UserRoleOf(db, r.userId))],
     r |-> Respond(r, 200, [success |-> TRUE, message |-> "User permissions reset"])]

ResetUserPermissionsExec(db, r) ==
    [db |-> [db EXCEPT !.user_permissions = DeleteAllOverrides(@, r.userId)],
     r |-> Respond(r, 200, [success |-> TRUE, message |-> "User permissions reset"])]

(***************************************************************************)
(* getRolePermissions and updateRolePermissions                            *)
(***************************************************************************)
GetRolePermissionsStart(r) == [r EXCEPT !.pc = "rp_read"]

GetRolePermissionsExec(db, r) ==
    [db |-> db,
     r |-> Respond(r, 200,
              [success |-> TRUE,
               data |-> [roleId |-> r.roleName, roleName |-> r.roleName,
                         permissions |-> SelectRolePerms(db, r.roleName), userCount |-> 0]])]

RoleDone(r) == Respond(r, 200, [success |-> TRUE, message |-> "Role permissions updated"])

UpdateRolePermissionsStart(r) == [r EXCEPT !.pc = "rp_delete"]

UpdateRolePermissionsExec(db, r) ==
    CASE r.pc = "rp_delete" ->
           [db |-> [db EXCEPT !.role_permissions = DeleteRole(@, r.roleName)],
            r |-> IF TruthyList(r.body.permissionNames) /\ NonEmpty(r.body.permissionNames)
                  THEN [r EXCEPT !.pc = "rp_select"]
                  ELSE RoleDone(r)]
      [] r.pc = "rp_select" ->
           LET perms == PermsByNames(r.body.permissionNames)
           IN [db |-> db,
               r |-> IF NonEmpty(perms) THEN [r EXCEPT !.loc.perms = perms, !.pc = "rp_insert"]
                     ELSE RoleDone(r)]
      [] r.pc = "rp_insert" ->
           LET ids == {p.id : p \in r.loc.perms}
           IN IF RoleDupKey(db.role_permissions, r.roleName, ids)
              THEN [db |-> db, r |-> ServerError(r)]
              ELSE [db |-> [db EXCEPT !.role_permissions = InsertRole(@, r.roleName, ids)],
                    r |-> RoleDone(r)]

(***************************************************************************)
(* updateUser (the role change; the other profile fields are represented   *)
(* by fullName)                                                            *)
(***************************************************************************)
UpdateUserStart(r) ==
    IF ~Truthy(r.body.fullName) /\ ~Truthy(r.body.role)
    THEN Respond(r, 400, [message |-> "No fields to update"])
    ELSE [r EXCEPT !.pc = "u_update"]

UpdateUserExec(db, r) ==
    CASE r.pc = "u_update" ->
           [db |-> IF Truthy(r.body.role) /\ db.users[r.userId] # NoRecord
                   THEN [db EXCEPT !.users[r.userId] = r.body.role] ELSE db,
            r |-> [r EXCEPT !.pc = "u_select"]]
      [] r.pc = "u_select" ->
           [db |-> db,
            r |-> Respond(r, 200,
                     [success |-> TRUE,
                      data |-> {[id |-> r.userId, role |-> db.users[u]] :
                                  u \in {x \in {r.userId} : db.users[x] # NoRecord}},
                      message |-> "User updated successfully"])]

(***************************************************************************)
(* Dispatch.  Start is the synchronous prefix of a handler up to its first *)
(* await; Exec is one awaited query and the code after it; a query that    *)
(* throws lands in the handler's catch block.                              *)
(***************************************************************************)
OverrideOps == {"updateUserPermission", "grantUserPermission", "revokeUserPermission"}

Start(op, id, body) ==
    LET r == NewReq(op, id, WrapperBody(op, body))
    IN CASE op \in OverrideOps -> UpdateUserPermissionStart(r)
         [] op = "getUserPermissions" -> GetUserPermissionsStart(r)
         [] op = "resetUserPermissions" -> ResetUserPermissionsStart(r)
         [] op = "getRolePermissions" -> GetRolePermissionsStart(r)
         [] op = "updateRolePermissions" -> UpdateRolePermissionsStart(r)
         [] op = "updateUser" -> UpdateUserStart(r)

Exec(db, r, fail) ==
    LET q == [r EXCEPT !.queries = @ + 1]
    IN IF fail THEN [db |-> db, r |-> ServerError(q)]
       ELSE CASE q.op \in OverrideOps -> UpdateUserPermissionExec(db, q)
              [] q.op = "getUserPermissions" -> GetUserPermissionsExec(db, q)
              [] q.op = "resetUserPermissions" -> ResetUserPermissionsExec(db, q)
              [] q.op = "getRolePermissions" -> GetRolePermissionsExec(db, q)
              [] q.op = "updateRolePermissions" -> UpdateRolePermissionsExec(db, q)
              [] q.op = "updateUser" -> UpdateUserExec(db, q)

\* A handler run without interleaving; failAt = k > 0 makes its k-th query throw.
RECURSIVE Run(_, _, _)
Run(db, r, failAt) ==
    IF r.pc = "done" THEN [db |-> db, r |-> r]
    ELSE LET out == Exec(db, r, failAt = 1)
         IN Run(out.db, out.r, failAt - 1)

(***************************************************************************)
(* Inputs of the requests.                                                 *)
(***************************************************************************)
NameLists == SUBSET ReqNames

BulkBodies ==
    {[NoBody EXCEPT !.grantPermissions = g, !.revokePermissions = v] :
        <<g, v>> \in {x \in (NameLists \cup {AbsentList}) \X (NameLists \cup {AbsentList}) :
                        x[1] # AbsentList \/ x[2] # AbsentList}}

SingleBodies ==
    {[NoBody EXCEPT !.permissionId = i, !.permissionName = n, !.type = t] :
        <<i, n, t>> \in (PermIds \cup {AbsentId}) \X (ReqNames \cup {Absent})
                          \X (OverrideTypes \cup {Absent, OtherType})}

\* A permissionId no Catalog permission has.
UnknownId == NumPerms + 1

\* Single updates whose permissionId is supplied by the caller and is not in
\* the Catalog: a grant, and one without a type.
UnknownIdBodies ==
    {[NoBody EXCEPT !.permissionId = UnknownId, !.type = t] :
        t \in {"grant", Absent}}

\* The wrappers overwrite body.type, so their bodies are drawn without one.
WrapperBodies == {b \in SingleBodies : b.type = Absent}

RoleBodies == {[NoBody EXCEPT !.permissionNames = n] : n \in NameLists \cup {AbsentList}}

\* The list of names of a role update (no list counts as the empty list).
RoleNames(body) ==
    IF TruthyList(body.permissionNames) THEN body.permissionNames ELSE {}

UserBodies ==
    {[NoBody EXCEPT !.role = ro, !.fullName = fn] :
        <<ro, fn>> \in (Roles \cup {Absent}) \X {Absent, "A. Learner"}}

DB == [users |-> users, user_permissions |-> user_permissions,
       role_permissions |-> role_permissions]

AllIdle == \A p \in Procs : reqs[p].pc = "idle"

(***************************************************************************)
(* Spec: requests are served one after the other.                          *)
(***************************************************************************)
Init ==
    /\ users = [u \in UserIds |-> IF u = 1 THEN "Instructor" ELSE NoRecord]
    /\ user_permissions = {}
    /\ role_permissions = EmptyBag
    /\ reqs = [p \in Procs |-> Idle]

\* The handler op(id, body) runs from its first statement to its response.
Serve(op, id, body) ==
    /\ AllIdle
    /\ \E out \in {Run(DB, Start(op, id, body), 0)} :
       /\ users' = out.db.users
       /\ user_permissions' = out.db.user_permissions
       /\ role_permissions' = out.db.role_permissions
       /\ reqs' = [reqs EXCEPT ![1] = out.r]

GetUserPermissions ==
    \E u \in UserIds : Serve("getUserPermissions", u, NoBody)

UpdateUserPermission ==
    \E u \in UserIds, b \in BulkBodies \cup SingleBodies :
        Serve("updateUserPermission", u, b)

GrantUserPermission ==
    \E u \in UserIds, b \in WrapperBodies : Serve("grantUserPermission", u, b)

RevokeUserPermission ==
    \E u \in UserIds, b \in WrapperBodies : Serve("revokeUserPermission", u, b)

ResetUserPermissions ==
    \E u \in UserIds : Serve("resetUserPermissions", u, NoBody)

GetRolePermissions ==
    \E ro \in Roles : Serve("getRolePermissions", ro, NoBody)

UpdateRolePermissions ==
    \E ro \in Roles, b \in RoleBodies : Serve("updateRolePermissions", ro, b)

UpdateUser ==
    \E u \in UserIds, b \in UserBodies : Serve("updateUser", u, b)

\* The response leaves the server and the slot is free again.
Reply ==
    \E p \in Procs :
        /\ reqs[p].pc = "done"
        /\ reqs' = [reqs EXCEPT ![p] = Idle]
        /\ UNCHANGED <<users, user_permissions, role_permissions>>

Next ==
    \/ GetUserPermissions
    \/ UpdateUserPermission
    \/ GrantUserPermission
    \/ RevokeUserPermission
    \/ ResetUserPermissions
    \/ GetRolePermissions
    \/ UpdateRolePermissions
    \/ UpdateUser
    \/ Reply

Spec == Init /\ [][Next]_vars

(***************************************************************************)
(* SpecFail: requests are served one after the other, and a query of an    *)
(* override update may be rejected by the database (connection lost,       *)
(* timeout): the await throws and the catch block answers 500.             *)
(***************************************************************************)
\* The bulk path awaits pool.query at most four times.
MaxQueries == 4

\* The handler runs to its response; its failAt-th query throws (0: none).
ServeFailing(op, id, body, failAt) ==
    /\ AllIdle
    /\ \E out \in {Run(DB, Start(op, id, body), failAt)} :
       /\ users' = out.db.users
       /\ user_permissions' = out.db.user_permissions
       /\ role_permissions' = out.db.role_permissions
       /\ reqs' = [reqs EXCEPT ![1] = out.r]

UpdateUserPermissionFailing ==
    \E u \in UserIds, b \in BulkBodies \cup SingleBodies \cup UnknownIdBodies,
       k \in 0..MaxQueries :
        ServeFailing("updateUserPermission", u, b, k)

ResetUserPermissionsFailing ==
    \E u \in UserIds, k \in 0..1 :
        ServeFailing("resetUserPermissions", u, NoBody, k)

NextFail ==
    \/ UpdateUserPermissionFailing
    \/ ResetUserPermissionsFailing
    \/ GetUserPermissions
    \/ Reply

SpecFail == Init /\ [][NextFail]_vars

(***************************************************************************)
(* SpecConc: the requests are served concurrently.  A request is received  *)
(* in a free slot and runs to its first await; then the queries of the     *)
(* requests in flight are executed one at a time, in any order.  The store *)
(* starts with the role policy of "Instructor" set to the whole Catalog    *)
(* (the state SetRolePermissions leaves in Spec), and every slot serves    *)
(* one request, so that the requests and their responses stay in view.     *)
(***************************************************************************)
InitConc ==
    /\ users = [u \in UserIds |-> IF u = 1 THEN "Instructor" ELSE NoRecord]
    /\ user_permissions = {}
    /\ role_permissions = SetToBag({[role |-> "Instructor", permissionId |-> i] : i \in PermIds})
    /\ reqs = [p \in Procs |-> Idle]

\* The request bodies of SpecConc: lists of Catalog names, and single updates
\* by name.
ConcBulkBodies ==
    {b \in BulkBodies : ToGrant(b) \cup ToRevoke(b) \subseteq CatalogNames}

ConcSingleBodies == {b \in SingleBodies : ~TruthyId(b.permissionId)}

ConcRoleBodies == {b \in RoleBodies : RoleNames(b) \subseteq CatalogNames}

\* A request takes the first free slot.
Receive(p, op, id, body) ==
    /\ reqs[p].pc = "idle"
    /\ \A q \in Procs : q < p => reqs[q].pc # "idle"
    /\ reqs' = [reqs EXCEPT ![p] = Start(op, id, body)]
    /\ UNCHANGED <<users, user_permissions, role_permissions>>

ReceiveGetUserPermissions ==
    \E p \in Procs, u \in UserIds : Receive(p, "getUserPermissions", u, NoBody)

ReceiveUpdateUserPermission ==
    \E p \in Procs, u \in UserIds, b \in ConcBulkBodies \cup ConcSingleBodies :
        Receive(p, "updateUserPermission", u, b)

ReceiveGrantUserPermission ==
    \E p \in Procs, u \in UserIds, b \in WrapperBodies \cap ConcSingleBodies :
        Receive(p, "grantUserPermission", u, b)

ReceiveRevokeUserPermission ==
    \E p \in Procs, u \in UserIds, b \in WrapperBodies \cap ConcSingleBodies :
        Receive(p, "revokeUserPermission", u, b)

ReceiveResetUserPermissions ==
    \E p \in Procs, u \in UserIds : Receive(p, "resetUserPermissions", u, NoBody)

ReceiveGetRolePermissions ==
    \E p \in Procs, ro \in Roles : Receive(p, "getRolePermissions", ro, NoBody)

ReceiveUpdateRolePermissions ==
    \E p \in Procs, ro \in Roles, b \in ConcRoleBodies :
        Receive(p, "updateRolePermissions", ro, b)

ReceiveUpdateUser ==
    \E p \in Procs, u \in UserIds, b \in UserBodies : Receive(p, "updateUser", u, b)

\* The store executes the query request p awaits; p runs on to its next await.
Query(p) ==
    /\ reqs[p].pc \notin {"idle", "done"}
    /\ \E out \in {Exec(DB, reqs[p], FALSE)} :
          /\ users' = out.db.users
          /\ user_permissions' = out.db.user_permissions
          /\ role_permissions' = out.db.role_permissions
          /\ reqs' = [reqs EXCEPT ![p] = out.r]

QueryStep == \E p \in Procs : Query(p)

NextConc ==
    \/ ReceiveGetUserPermissions
    \/ ReceiveUpdateUserPermission
    \/ ReceiveGrantUserPermission
    \/ ReceiveRevokeUserPermission
    \/ ReceiveResetUserPermissions
    \/ ReceiveGetRolePermissions
    \/ ReceiveUpdateRolePermissions
    \/ ReceiveUpdateUser
    \/ QueryStep

SpecConc == InitConc /\ [][NextConc]_vars

(***************************************************************************)
(* SpecSnap: one getUserPermissions is served in slot 1 while writers are  *)
(* served, one after the other, in slot 2; the queries of the two are      *)
(* executed one at a time, in any order.  The field seen of the reader is  *)
(* a history: the states of the store from the reader's first statement    *)
(* on, as long as it has not answered.  The store starts as in SpecConc.   *)
(***************************************************************************)
\* Writers are received while the history holds fewer store states.
MaxSeen == 3

Reader == 1
Writer == 2

InFlight(r) == r.pc \notin {"idle", "done"}

SnapReceiveReader ==
    \E u \in UserIds :
        /\ reqs[Reader].pc = "idle"
        /\ reqs' = [reqs EXCEPT ![Reader] =
                       [Start("getUserPermissions", u, NoBody) EXCEPT !.seen = {DB}]]
        /\ UNCHANGED <<users, user_permissions, role_permissions>>

SnapReceiveWriter(op, id, body) ==
    /\ InFlight(reqs[Reader])
    /\ ~InFlight(reqs[Writer])
    /\ Cardinality(reqs[Reader].seen) < MaxSeen
    /\ reqs' = [reqs EXCEPT ![Writer] = Start(op, id, body)]
    /\ UNCHANGED <<users, user_permissions, role_permissions>>

SnapUpdateUserPermission ==
    \E u \in UserIds, b \in ConcBulkBodies :
        SnapReceiveWriter("updateUserPermission", u, b)

SnapResetUserPermissions ==
    \E u \in UserIds : SnapReceiveWriter("resetUserPermissions", u, NoBody)

SnapUpdateRolePermissions ==
    \E ro \in Roles, b \in ConcRoleBodies :
        SnapReceiveWriter("updateRolePermissions", ro, b)

SnapUpdateUser ==
    \E u \in UserIds, b \in UserBodies : SnapReceiveWriter("updateUser", u, b)

\* The store executes the query request p awaits; the store state it leaves
\* joins the history of the reader that has not answered yet.
SnapQuery(p) ==
    /\ InFlight(reqs[p])
    /\ \E out \in {Exec(DB, reqs[p], FALSE)} :
          /\ users' = out.db.users
          /\ user_permissions' = out.db.user_permissions
          /\ role_permissions' = out.db.role_permissions
          /\ reqs' = [q \in Procs |->
                        IF q = p THEN out.r
                        ELSE IF q = Reader /\ InFlight(reqs[q])
                             THEN [reqs[q] EXCEPT !.seen = @ \cup {out.db}]
                             ELSE reqs[q]]

SnapQueryStep == \E p \in {Reader, Writer} : SnapQuery(p)

NextSnap ==
    \/ SnapReceiveReader
    \/ SnapUpdateUserPermission
    \/ SnapResetUserPermissions
    \/ SnapUpdateRolePermissions
    \/ SnapUpdateUser
    \/ SnapQueryStep

SpecSnap == InitConc /\ [][NextSnap]_vars


(***************************************************************************)
(* The stores as the specification speaks of them.                         *)
(***************************************************************************)
\* role(u): the role of the user record, "User" when there is none.
RoleOfUser(u) == IF users[u] = NoRecord THEN "User" ELSE users[u]

\* rolePermissions(role): the catalog names the Role Policy Store holds for role.
Baseline(role) ==
    {PermNames[i] : i \in {j \in 1..NumPerms :
                             BagIn([role |-> role, permissionId |-> j], role_permissions)}}

\* granted(u), revoked(u): the catalog names with an override row of that type.
OverridesOf(u, type) ==
    {PermNames[i] : i \in {j \in 1..NumPerms :
        [userId |-> u, permissionId |-> j, type |-> type] \in user_permissions}}

\* A request of handler op answered with status.
Answered(p, ops, status) ==
    /\ reqs[p].pc = "done"
    /\ reqs[p].op \in ops
    /\ reqs[p].res.status = status

\* C1: whenever Resolve(u) has answered, its effectivePermissions is
\* (rolePermissions(role(u)) UNION granted(u)) MINUS revoked(u) of the store as
\* it is, its three views are those of the store, and no permission with a
\* revoke override is in the effective set.
C1_EffectiveIsRoleUnionGrantedMinusRevoked ==
    \A p \in Procs :
        Answered(p, {"getUserPermissions"}, 200) =>
            LET d == reqs[p].res.payload.data
                u == reqs[p].userId
            IN /\ d.role = RoleOfUser(u)
               /\ d.rolePermissions = Baseline(RoleOfUser(u))
               /\ d.grantedPermissions = OverridesOf(u, "grant")
               /\ d.revokedPermissions = OverridesOf(u, "revoke")
               /\ d.effectivePermissions =
                      (Baseline(RoleOfUser(u)) \cup OverridesOf(u, "grant"))
                          \ OverridesOf(u, "revoke")
               /\ \A n \in OverridesOf(u, "revoke") : n \notin d.effectivePermissions

\* Resolve answered for a user whose role baseline holds a revoked permission
\* and who has a grant outside the baseline.
C1_Witness ==
    \E p \in Procs :
        /\ Answered(p, {"getUserPermissions"}, 200)
        /\ \E n \in OverridesOf(reqs[p].userId, "revoke") : n \in Baseline(RoleOfUser(reqs[p].userId))
        /\ \E n \in OverridesOf(reqs[p].userId, "grant") : n \notin Baseline(RoleOfUser(reqs[p].userId))
        /\ reqs[p].res.payload.data.effectivePermissions # {}

\* C2: the User Override Store holds at most one row per (userId, permissionId).
C2_AtMostOneRowPerPair ==
    \A r1 \in user_permissions : \A r2 \in user_permissions :
        (r1.userId = r2.userId /\ r1.permissionId = r2.permissionId) => r1 = r2

\* A bulk update answered that wrote the same pair twice (grant, then revoke
\* over it), by a user who also has a second override row.
C2_Witness ==
    \E p \in Procs :
        /\ Answered(p, {"updateUserPermission"}, 200)
        /\ IsBulk(reqs[p].body)
        /\ \E n \in CatalogNames :
              /\ n \in ToGrant(reqs[p].body) \cap ToRevoke(reqs[p].body)
              /\ n \in OverridesOf(reqs[p].userId, "revoke")
        /\ Cardinality({r \in user_permissions : r.userId = reqs[p].userId}) = 2

(***************************************************************************)
(* What the next request would answer in a given store.                    *)
(***************************************************************************)
\* The data of Resolve(u) served on store db.
ResolveOn(db, u) == Run(db, Start("getUserPermissions", u, NoBody), 0).r.res.payload.data

\* The names GetRolePermissions(role) answers on store db.
RolePermissionsOn(db, role) ==
    Run(db, Start("getRolePermissions", role, NoBody), 0).r.res.payload.data.permissions

\* C5: once SetRolePermissions(r, S) has answered, GetRolePermissions(r)
\* answers exactly the names of S that are in the Catalog; the same
\* SetRolePermissions(r, S) again succeeds and leaves the stores as they are;
\* and if no name of S is in the Catalog, every user of role r without
\* overrides resolves to the empty effective set.
C5_SetThenGetRolePermissions ==
    \A p \in Procs :
        (reqs[p].pc = "done" /\ reqs[p].op = "updateRolePermissions") =>
            LET ro == reqs[p].roleName
                S == RoleNames(reqs[p].body)
                again == Run(DB, Start("updateRolePermissions", ro, reqs[p].body), 0)
            IN /\ reqs[p].res.status = 200
               /\ RolePermissionsOn(DB, ro) = S \cap CatalogNames
               /\ again.r.res.status = 200
               /\ again.db = DB
               /\ (S \cap CatalogNames = {}) =>
                     \A u \in UserIds :
                         (RoleOfUser(u) = ro /\ DeleteAllOverrides(user_permissions, u) = user_permissions)
                             => ResolveOn(DB, u).effectivePermissions = {}

\* A role update answered whose list holds an unknown name and some, not all,
\* of the Catalog, for the role of a user with a record.
C5_Witness ==
    \E p \in Procs :
        /\ Answered(p, {"updateRolePermissions"}, 200)
        /\ UnknownName \in RoleNames(reqs[p].body)
        /\ RoleNames(reqs[p].body) \cap CatalogNames # {}
        /\ ~(CatalogNames \subseteq RoleNames(reqs[p].body))
        /\ Baseline(reqs[p].roleName) = RoleNames(reqs[p].body) \cap CatalogNames
        /\ \E u \in UserIds : users[u] = reqs[p].roleName

\* C6: ResetOverrides(u) always succeeds and leaves no override row for u;
\* Resolve(u) then answers no grants, no revokes and the role permissions as
\* the effective set; ResetOverrides(u) again changes nothing.
C6_ResetLeavesRoleBaseline ==
    \A p \in Procs :
        (reqs[p].pc = "done" /\ reqs[p].op = "resetUserPermissions") =>
            LET u == reqs[p].userId
                d == ResolveOn(DB, u)
                again == Run(DB, Start("resetUserPermissions", u, NoBody), 0)
            IN /\ reqs[p].res.status = 200
               /\ \A r \in user_permissions : r.userId # u
               /\ d.grantedPermissions = {}
               /\ d.revokedPermissions = {}
               /\ d.effectivePermissions = d.rolePermissions
               /\ d.rolePermissions = Baseline(RoleOfUser(u))
               /\ again.r.res.status = 200
               /\ again.db = DB

\* A reset answered for a user whose role has permissions, while another
\* user keeps overrides.
C6_Witness ==
    \E p \in Procs :
        /\ Answered(p, {"resetUserPermissions"}, 200)
        /\ Baseline(RoleOfUser(reqs[p].userId)) # {}
        /\ \E r \in user_permissions : r.userId # reqs[p].userId

(***************************************************************************)
(* Steps of Spec: the request served by the step is reqs'[1].              *)
(***************************************************************************)
\* The step serves a request of one of ops to its response.
Serves(ops) ==
    /\ AllIdle
    /\ reqs'[1].pc = "done"
    /\ reqs'[1].op \in ops

\* The request is a revoke of catalog permission n: a bulk update with n in
\* its revoke list, or a single update of type revoke whose permissionId (or,
\* without one, whose permissionName) is that of n.
IsRevokeOf(r, n) ==
    IF IsBulk(r.body) THEN n \in ToRevoke(r.body)
    ELSE /\ r.body.type = "revoke"
         /\ \/ (TruthyId(r.body.permissionId) /\ PermNames[r.body.permissionId] = n)
            \/ (~TruthyId(r.body.permissionId) /\ r.body.permissionName = n)

\* C7: when u holds a grant override of catalog permission p (the grant was
\* the last write to (u,p)) and a revoke of p from u is served, bulk or single,
\* the revoke succeeds and p is outside effectivePermissions(u), also when p is
\* in the role baseline.
C7_GrantThenRevoke ==
    [][\A u \in UserIds : \A n \in CatalogNames :
          (/\ n \in OverridesOf(u, "grant")
           /\ Serves(OverrideOps)
           /\ reqs'[1].userId = u
           /\ IsRevokeOf(reqs'[1], n))
          => /\ reqs'[1].res.status = 200
             /\ n \notin ResolveOn(DB', u).effectivePermissions
             /\ n \in ResolveOn(DB', u).revokedPermissions]_vars

\* A single revoke answered for a permission of the role baseline.
C7_Witness ==
    \E p \in Procs : \E n \in CatalogNames :
        /\ Answered(p, {"updateUserPermission", "revokeUserPermission"}, 200)
        /\ ~IsBulk(reqs[p].body)
        /\ IsRevokeOf(reqs[p], n)
        /\ n \in Baseline(RoleOfUser(reqs[p].userId))
        /\ n \in OverridesOf(reqs[p].userId, "revoke")

\* C8: a bulk update that names catalog permission p in both lists leaves the
\* one row of (u,p) with type revoke, and p outside effectivePermissions(u).
C8_BulkRevokeWins ==
    \A p \in Procs :
        (reqs[p].pc = "done" /\ reqs[p].op \in OverrideOps /\ IsBulk(reqs[p].body)) =>
            \A n \in ToGrant(reqs[p].body) \cap ToRevoke(reqs[p].body) \cap CatalogNames :
                /\ reqs[p].res.status = 200
                /\ n \in OverridesOf(reqs[p].userId, "revoke")
                /\ n \notin OverridesOf(reqs[p].userId, "grant")
                /\ n \notin ResolveOn(DB, reqs[p].userId).effectivePermissions

\* A bulk update answered with a permission of the role baseline in both lists.
C8_Witness ==
    \E p \in Procs : \E n \in CatalogNames :
        /\ Answered(p, {"updateUserPermission"}, 200)
        /\ IsBulk(reqs[p].body)
        /\ n \in ToGrant(reqs[p].body) \cap ToRevoke(reqs[p].body)
        /\ n \in Baseline(RoleOfUser(reqs[p].userId))

\* The catalog names a bulk update names in either list.
BulkNamed(body) == (ToGrant(body) \cup ToRevoke(body)) \cap CatalogNames

\* C9: a bulk update deletes no override row (every pair that had a row has
\* one afterwards) and changes only rows of its user for the catalog
\* permissions it names: every other row is there before iff it is after.
C9_BulkFrame ==
    [][(Serves(OverrideOps) /\ IsBulk(reqs'[1].body)) =>
          /\ \A r \in user_permissions : DupKey(user_permissions', r.userId, r.permissionId)
          /\ \A r \in user_permissions \cup user_permissions' :
                (r.userId # reqs'[1].userId
                    \/ r.permissionId \notin {q.id : q \in PermsByNames(BulkNamed(reqs'[1].body))})
                => (r \in user_permissions <=> r \in user_permissions')
          /\ UNCHANGED <<users, role_permissions>>]_vars

\* A bulk update answered that wrote a row while its user keeps an override
\* for a permission it did not name and another user keeps overrides.
C9_Witness ==
    \E p \in Procs :
        /\ Answered(p, {"updateUserPermission"}, 200)
        /\ IsBulk(reqs[p].body)
        /\ BulkNamed(reqs[p].body) # {}
        /\ \E n \in CatalogNames \ BulkNamed(reqs[p].body) :
              n \in OverridesOf(reqs[p].userId, "grant") \cup OverridesOf(reqs[p].userId, "revoke")
        /\ \E r \in user_permissions : r.userId # reqs[p].userId

\* The request is a single update by a name alone that is not in the Catalog.
IsSingleByUnknownName(r) ==
    /\ r.op \in OverrideOps
    /\ ~IsBulk(r.body)
    /\ ~TruthyId(r.body.permissionId)
    /\ Truthy(r.body.permissionName)
    /\ r.body.permissionName \notin CatalogNames

\* C10: a single update given only a permissionName that is not in the
\* Catalog answers 404 "Permission not found" and leaves the User Override
\* Store unchanged, whatever its type.
C10_UnknownNameNotFound ==
    [][(Serves(OverrideOps) /\ IsSingleByUnknownName(reqs'[1])) =>
          /\ reqs'[1].res.status = 404
          /\ reqs'[1].res.payload.message = "Permission not found"
          /\ user_permissions' = user_permissions]_vars

\* Such a request with a type, answered 404, for a user who has overrides.
C10_Witness ==
    \E p \in Procs :
        /\ reqs[p].pc = "done"
        /\ IsSingleByUnknownName(reqs[p])
        /\ reqs[p].body.type \in OverrideTypes
        /\ reqs[p].res.status = 404
        /\ \E r \in user_permissions : r.userId = reqs[p].userId

(***************************************************************************)
(* Readers and writers in SpecConc.                                        *)
(***************************************************************************)
\* The role policy SpecConc starts with.
InitBaseline(ro) == IF ro = "Instructor" THEN CatalogNames ELSE {}

\* w is the only request that writes the policy of role ro.
OnlyRoleWriter(w, ro) ==
    /\ reqs[w].op = "updateRolePermissions"
    /\ reqs[w].roleName = ro
    /\ \A q \in Procs \ {w} :
          ~(reqs[q].op = "updateRolePermissions" /\ reqs[q].roleName = ro)

\* w is the only request that writes overrides of user u, and it is a bulk update.
OnlyBulkWriter(w, u) ==
    /\ reqs[w].op = "updateUserPermission"
    /\ IsBulk(reqs[w].body)
    /\ reqs[w].userId = u
    /\ \A q \in Procs \ {w} :
          ~(reqs[q].op \in OverrideOps \cup {"resetUserPermissions"} /\ reqs[q].userId = u)

\* C3: a reader that runs along with SetRolePermissions(r, S), S holding a
\* Catalog name, is answered the complete old or the complete new permission
\* set of r: GetRolePermissions(r) in permissions, Resolve of a user it read
\* role r for in rolePermissions.
C3_RoleReplaceAtomicToReaders ==
    \A w \in Procs : \A q \in Procs : \A ro \in Roles :
        (/\ OnlyRoleWriter(w, ro)
         /\ RoleNames(reqs[w].body) \cap CatalogNames # {})
        => LET old == InitBaseline(ro)
               new == RoleNames(reqs[w].body) \cap CatalogNames
           IN /\ (Answered(q, {"getRolePermissions"}, 200) /\ reqs[q].roleName = ro)
                    => reqs[q].res.payload.data.permissions \in {old, new}
              /\ (Answered(q, {"getUserPermissions"}, 200)
                      /\ reqs[q].res.payload.data.role = ro)
                    => reqs[q].res.payload.data.rolePermissions \in {old, new}

\* C4: a Resolve(u) that runs along with a bulk ApplyOverrides(u, grantNames,
\* revokeNames), the two lists disjoint, is answered the overrides of u as
\* they were before the call (none) or as the whole call leaves them.
C4_BulkAllOrNothingToReaders ==
    \A w \in Procs : \A q \in Procs : \A u \in UserIds :
        (/\ OnlyBulkWriter(w, u)
         /\ ToGrant(reqs[w].body) \cap ToRevoke(reqs[w].body) = {}
         /\ Answered(q, {"getUserPermissions"}, 200)
         /\ reqs[q].userId = u)
        => LET d == reqs[q].res.payload.data
               revoked == ToRevoke(reqs[w].body) \cap CatalogNames
               granted == (ToGrant(reqs[w].body) \cap CatalogNames) \ revoked
           IN \/ (d.grantedPermissions = {} /\ d.revokedPermissions = {})
              \/ (d.grantedPermissions = granted /\ d.revokedPermissions = revoked)

(***************************************************************************)
(* The single path without a type, and the request without any field.      *)
(***************************************************************************)
\* The identifier of a Catalog name.
IdOfName(n) == CHOOSE i \in 1..NumPerms : PermNames[i] = n

\* The request is a single update without a type for catalog permission n,
\* named by its permissionId or, without one, by its permissionName.
IsClearOf(r, n) ==
    /\ r.op = "updateUserPermission"
    /\ ~IsBulk(r.body)
    /\ r.body.type = Absent
    /\ \/ (TruthyId(r.body.permissionId) /\ PermNames[r.body.permissionId] = n)
       \/ (~TruthyId(r.body.permissionId) /\ r.body.permissionName = n)

\* C11: a single update of (u,p) without a type succeeds; the override store
\* afterwards is the store before without the row of (u,p), so the row is
\* deleted if there was one, nothing changes if there was none, no row is
\* created and every other pair keeps its override; p is then effective for u
\* exactly when it is in the role baseline.
C11_SingleWithoutTypeDeletes ==
    [][\A u \in UserIds : \A n \in CatalogNames :
          (/\ Serves({"updateUserPermission"})
           /\ reqs'[1].userId = u
           /\ IsClearOf(reqs'[1], n))
          => /\ reqs'[1].res.status = 200
             /\ user_permissions' =
                    {r \in user_permissions :
                        ~(r.userId = u /\ r.permissionId = IdOfName(n))}
             /\ (n \in ResolveOn(DB', u).effectivePermissions
                    <=> n \in Baseline(RoleOfUser(u)))
             /\ UNCHANGED <<users, role_permissions>>]_vars

\* Such an update answered, by name, for a permission of the role baseline of
\* a user who keeps an override of another permission.
C11_Witness ==
    \E p \in Procs : \E n \in CatalogNames :
        /\ Answered(p, {"updateUserPermission"}, 200)
        /\ IsClearOf(reqs[p], n)
        /\ ~TruthyId(reqs[p].body.permissionId)
        /\ n \in Baseline(RoleOfUser(reqs[p].userId))
        /\ \E r \in user_permissions : r.userId = reqs[p].userId
        /\ n \in ResolveOn(DB, reqs[p].userId).effectivePermissions

\* C12: an override update that carries no field at all is rejected before
\* any query is made: it is not answered with success and it has called
\* pool.query zero times.
C12_EmptyRequestRejected ==
    \A p \in Procs :
        (/\ reqs[p].pc = "done"
         /\ reqs[p].op = "updateUserPermission"
         /\ reqs[p].body = NoBody)
        => /\ reqs[p].res.status # 200
           /\ reqs[p].queries = 0

(***************************************************************************)
(* A storage failure in the middle of a bulk update.                       *)
(***************************************************************************)
\* C13: a bulk update (of distinct names to grant and to revoke) that is
\* answered with a failure leaves the override store exactly as it was before
\* the call.
C13_BulkFailsWhole ==
    [][(/\ Serves({"updateUserPermission"})
        /\ IsBulk(reqs'[1].body)
        /\ ToGrant(reqs'[1].body) \cap ToRevoke(reqs'[1].body) = {}
        /\ reqs'[1].res.status = 500)
       => user_permissions' = user_permissions]_vars

(***************************************************************************)
(* Names outside the Catalog in a bulk update.                             *)
(***************************************************************************)
\* The bulk request names, to grant or to revoke, a name outside the Catalog.
HasUnresolved(body) ==
    \E n \in ToGrant(body) \cup ToRevoke(body) : n \notin CatalogNames

\* C14: a bulk update that names a permission outside the Catalog succeeds;
\* every row it creates or changes is a row of its user for a Catalog name of
\* its lists, every Catalog name of its lists has a row afterwards, and when
\* none of its names is in the Catalog the override store is unchanged.
C14_BulkDropsUnresolved ==
    [][(/\ Serves({"updateUserPermission"})
        /\ IsBulk(reqs'[1].body)
        /\ HasUnresolved(reqs'[1].body))
       => /\ reqs'[1].res.status = 200
          /\ \A r \in user_permissions' \ user_permissions :
                /\ r.userId = reqs'[1].userId
                /\ r.permissionId \in PermIds
                /\ PermNames[r.permissionId] \in BulkNamed(reqs'[1].body)
          /\ \A n \in BulkNamed(reqs'[1].body) :
                DupKey(user_permissions', reqs'[1].userId, IdOfName(n))
          /\ (BulkNamed(reqs'[1].body) = {}
                => user_permissions' = user_permissions)]_vars

\* A bulk update answered that granted a name outside the Catalog together
\* with a Catalog name, whose row is in the store.
C14_Witness ==
    \E p \in Procs : \E n \in CatalogNames :
        /\ Answered(p, {"updateUserPermission"}, 200)
        /\ IsBulk(reqs[p].body)
        /\ {UnknownName, n} \subseteq ToGrant(reqs[p].body)
        /\ n \notin ToRevoke(reqs[p].body)
        /\ n \in OverridesOf(reqs[p].userId, "grant")

BothRoleUpdatesDone(ro) ==
    \A p \in Procs :
        /\ Answered(p, {"updateRolePermissions"}, 200)
        /\ reqs[p].roleName = ro

\* C16: when two concurrent updates of the permissions of one role have both
\* completed, the role holds the Catalog names of the list of one of them,
\* never a mixture of the two lists.
C16_LastWriterWins ==
    \A ro \in Roles :
        BothRoleUpdatesDone(ro)
        => \E p \in Procs : Baseline(ro) = RoleNames(reqs[p].body) \cap CatalogNames

C18_NoRecordResolvesAsUser ==
    \A p \in Procs :
        (/\ reqs[p].pc = "done"
         /\ reqs[p].op = "getUserPermissions"
         /\ users[reqs[p].userId] = NoRecord)
        => /\ reqs[p].res.status = 200
           /\ LET d == reqs[p].res.payload.data
                  u == reqs[p].userId
              IN /\ d.role = "User"
                 /\ d.rolePermissions = Baseline("User")
                 /\ d.effectivePermissions =
                        (Baseline("User") \cup OverridesOf(u, "grant"))
                            \ OverridesOf(u, "revoke")

\* Resolve answered for an identifier without a record, while role "User"
\* holds permissions, one of which is revoked for the identifier, and the
\* identifier has a grant outside of them.
C18_Witness ==
    \E p \in Procs :
        /\ Answered(p, {"getUserPermissions"}, 200)
        /\ users[reqs[p].userId] = NoRecord
        /\ \E n \in Baseline("User") : n \in OverridesOf(reqs[p].userId, "revoke")
        /\ \E n \in OverridesOf(reqs[p].userId, "grant") : n \notin Baseline("User")
        /\ reqs[p].res.payload.data.effectivePermissions # {}

(***************************************************************************)
(* A revoke of a permission the user does not hold.                        *)
(***************************************************************************)
\* The request revokes catalog permission n and names no other Catalog
\* permission.
IsRevokeOfOnly(r, n) ==
    /\ IsRevokeOf(r, n)
    /\ IsBulk(r.body) => BulkNamed(r.body) = {n}

\* C19: when catalog permission p is not in the role baseline of u and u has
\* no grant override of p, a revoke of p from u, bulk or single, succeeds and
\* effectivePermissions(u) after it is what it was before it.
C19_RevokeOfUnheldKeepsEffective ==
    [][\A u \in UserIds : \A n \in CatalogNames :
          (/\ n \notin Baseline(RoleOfUser(u))
           /\ n \notin OverridesOf(u, "grant")
           /\ Serves(OverrideOps)
           /\ reqs'[1].userId = u
           /\ IsRevokeOfOnly(reqs'[1], n))
          => /\ reqs'[1].res.status = 200
             /\ ResolveOn(DB', u).effectivePermissions
                    = ResolveOn(DB, u).effectivePermissions]_vars

\* A single revoke answered for a permission outside the role baseline of a
\* user who holds a permission of the baseline and a grant of another one.
C19_Witness ==
    \E p \in Procs : \E n \in CatalogNames :
        /\ Answered(p, OverrideOps, 200)
        /\ ~IsBulk(reqs[p].body)
        /\ IsRevokeOf(reqs[p], n)
        /\ n \notin Baseline(RoleOfUser(reqs[p].userId))
        /\ n \in OverridesOf(reqs[p].userId, "revoke")
        /\ ResolveOn(DB, reqs[p].userId).effectivePermissions # {}

(***************************************************************************)
(* Which handler writes which store.                                       *)
(***************************************************************************)
\* C20: every override update (bulk, single, wrapper, without type) and every
\* reset of a user leaves role_permissions unchanged, every update of the
\* permissions of a role leaves user_permissions unchanged, and
\* getUserPermissions and getRolePermissions leave both unchanged.
C20_WriterSeparation ==
    [][/\ Serves(OverrideOps \cup {"resetUserPermissions"})
            => role_permissions' = role_permissions
       /\ Serves({"updateRolePermissions"})
            => user_permissions' = user_permissions
       /\ Serves({"getUserPermissions", "getRolePermissions"})
            => /\ role_permissions' = role_permissions
               /\ user_permissions' = user_permissions]_vars

\* A reset answered for a user whose role holds permissions, while another
\* user keeps overrides.
C20_Witness ==
    \E p \in Procs :
        /\ Answered(p, {"resetUserPermissions"}, 200)
        /\ Baseline(RoleOfUser(reqs[p].userId)) # {}
        /\ \E r \in user_permissions : r.userId # reqs[p].userId

(***************************************************************************)
(* The view of getUserPermissions as a snapshot of the store.              *)
(***************************************************************************)
\* The view d of user u is the view of store state s.
ViewOf(d, u, s) ==
    /\ d.role = ResolveOn(s, u).role
    /\ d.rolePermissions = ResolveOn(s, u).rolePermissions
    /\ d.grantedPermissions = ResolveOn(s, u).grantedPermissions
    /\ d.revokedPermissions = ResolveOn(s, u).revokedPermissions

\* C21: the role, rolePermissions, grantedPermissions and revokedPermissions
\* that getUserPermissions(u) answers are those of one state the store was in
\* between the start and the end of the call.
C21_ResolveIsSnapshot ==
    Answered(Reader, {"getUserPermissions"}, 200)
    => \E s \in reqs[Reader].seen :
          ViewOf(reqs[Reader].res.payload.data, reqs[Reader].userId, s)

(***************************************************************************)
(* The permissions the override rows refer to.                             *)
(***************************************************************************)
\* C22: in every reachable state every row of the override store has the
\* permissionId of a Catalog permission, and that permission is in the
\* grantedPermissions or in the revokedPermissions getUserPermissions answers
\* for the user of the row.
C22_OverridesReferenceCatalog ==
    \A r \in user_permissions :
        /\ r.permissionId \in PermIds
        /\ PermNames[r.permissionId] \in
               ResolveOn(DB, r.userId).grantedPermissions
                   \cup ResolveOn(DB, r.userId).revokedPermissions

====
